---- MODULE Spec2Model ----
(***************************************************************************)
(* Model of package nfqueue (src/nfqueue.go): the Queue lifecycle          *)
(* (NewQueue, Start, Stop), the Packet verdict operations (Accept, Drop,   *)
(* Modify, setVerdict) and the flag composition of Start.                  *)
(*                                                                         *)
(* The native library (libnetfilter_queue, close(2)) is the environment:   *)
(* every native call is logged with its arguments and its outcome is a     *)
(* nondeterministic choice.  The registry (queueRegistry), the receive     *)
(* loop (nfqueue_loop) and the dispatch callback are not part of           *)
(* src/nfqueue.go; they are modelled from the specification text.          *)
(***************************************************************************)
EXTENDS Integers, Sequences, FiniteSets, TLC

\* ------------------------------------------------------------------ bounds
MaxQueues == 2        \* Queue objects created by NewQueue
MaxId == 1            \* queue ids are drawn from 0..MaxId
MaxEvents == 2        \* events delivered by the native layer, per queue
MaxVerdictOps == 2    \* Accept/Drop/Modify invocations, in total
MaxBufLen == 1        \* length of a Modify replacement buffer
MaxLookups == 1       \* Lookup calls made by contexts other than the callback

\* ------------------------------------------------- constants of the source
FailOpen == 1
Conntrack == 2
GSO == 4
UIDGid == 8
Secctx == 16

QueueIds == 0..MaxId
QueueRefs == 1..MaxQueues
Lookers == 1..MaxLookups
Handlers == {"hA", "hB"}

\* *QueueConfig values offered to NewQueue: <<>> is the nil pointer, <<c>> points to c.
QueueConfig(mp, fl, bs) == [MaxPackets |-> mp, QueueFlags |-> fl, BufferSize |-> bs]
CfgInputs ==
    { <<>>,
      <<QueueConfig(0, <<>>, 0)>>,
      <<QueueConfig(3, <<Conntrack, UIDGid>>, 5)>>,
      <<QueueConfig(3, <<>>, 0)>>,
      <<QueueConfig(0, <<FailOpen>>, 0)>>,
      <<QueueConfig(0, <<>>, 5)>> }

\* Replacement buffers offered to Modify: every length 0..MaxBufLen.
Buffers == UNION { [1..n -> {170}] : n \in 0..MaxBufLen }

\* --------------------------------------------------------- bit arithmetic
RECURSIVE BitAnd(_, _)
BitAnd(a, b) ==
    IF a = 0 \/ b = 0 THEN 0
    ELSE (a % 2) * (b % 2) + 2 * BitAnd(a \div 2, b \div 2)

RECURSIVE BitOr(_, _)
BitOr(a, b) ==
    IF a = 0 THEN b
    ELSE IF b = 0 THEN a
    ELSE (IF a % 2 = 1 \/ b % 2 = 1 THEN 1 ELSE 0) + 2 * BitOr(a \div 2, b \div 2)

\* var flags C.uint32_t; for _, flag := range QueueFlags { flags &= flag }
\* (an AND never exceeds its operands, so the 32-bit width never truncates)
RECURSIVE FoldFlags(_, _)
FoldFlags(fs, acc) ==
    IF fs = <<>> THEN acc
    ELSE FoldFlags(Tail(fs), BitAnd(acc, Head(fs)))

ComposeFlags(fs) == FoldFlags(fs, 0)

\* The bitwise OR of all flag bits of a list (what the flag mask is meant to be).
RECURSIVE OrOfFlags(_)
OrOfFlags(fs) == IF fs = <<>> THEN 0 ELSE BitOr(Head(fs), OrOfFlags(Tail(fs)))


\* ------------------------------------------------------------------- state
VARIABLES
    queues,      \* the Queue objects, in creation order: ID, handler, cfg, h, qh, fd
    registry,    \* queueRegistry: queue id -> Queue (0 = no entry)
    spc,         \* per Queue: position of the context that calls Start
    sret,        \* per Queue: what Start returned ("none" while it has not)
    tpc,         \* per Queue: position of the context that calls Stop
    tret,        \* per Queue: what Stop returned
    startCalls,  \* per Queue: native calls issued by Start, in order
    stopCalls,   \* per Queue: native calls issued by Stop, in order; the first
                 \* notes whether the receive loop was running when Stop began
    native,      \* native layer: live contexts, live bindings, open descriptors
    dispatched,  \* per binding: handler invocations made by the callback, in order
    verdicts,    \* the Accept/Drop/Modify invocations, in order
    loopEnd,     \* per Queue: why the receive loop ended and what it returned
    mutex,       \* the registry's lock: <<>> when free, else its holder
    reg,         \* per Queue: position of its NewQueue call inside Register
    look,        \* per lookup context: position inside Lookup, the id, the result
    completed    \* history: per queue id, the Queue of the last completed Register

regVars == <<mutex, reg, look, completed>>

vars == <<queues, registry, spc, sret, tpc, tret, startCalls, stopCalls,
          native, dispatched, verdicts, loopEnd, mutex, reg, look, completed>>

Created == 1..Len(queues)

Init ==
    /\ queues = <<>>
    /\ registry = [id \in QueueIds |-> 0]
    /\ spc = [q \in QueueRefs |-> "start"]
    /\ sret = [q \in QueueRefs |-> "none"]
    /\ tpc = [q \in QueueRefs |-> "close"]
    /\ tret = [q \in QueueRefs |-> "none"]
    /\ startCalls = [q \in QueueRefs |-> <<>>]
    /\ stopCalls = [q \in QueueRefs |-> <<>>]
    /\ native = [ctx |-> {}, binds |-> {}, std |-> {0, 1, 2}, socks |-> {},
                 fdOf |-> [q \in QueueRefs |-> -1]]
    /\ dispatched = [q \in QueueRefs |-> <<>>]
    /\ verdicts = <<>>
    /\ loopEnd = [q \in QueueRefs |-> [why |-> "none", ret |-> 0]]
    /\ mutex = <<>>
    /\ reg = [q \in QueueRefs |-> [pc |-> "idle", id |-> 0, q |-> 0]]
    /\ look = [l \in Lookers |-> [pc |-> "idle", id |-> 0, res |-> 0]]
    /\ completed = [id \in QueueIds |-> 0]

\* ---------------------------------------------------------------- registry
\* Mutant of Register: an id that is registered keeps its first Queue.
RegisterKeepsFirst(r, id, q) == IF r[id] = 0 THEN [r EXCEPT ![id] = q] ELSE r

\* Register(id, queue): unconditionally overwrites any existing entry for id.
Register(r, id, q) == [r EXCEPT ![id] = q]

\* Lookup(id): the queue or "not found" (0).
Lookup(r, id) == r[id]

\* ---------------------------------------------------------------- NewQueue
\* if cfg == nil { cfg = &QueueConfig{} }; q := &Queue{ID, handler, cfg}
MakeQueue(queueID, handler, cfg) ==
    [ID |-> queueID, handler |-> handler,
     cfg |-> IF cfg = <<>> THEN QueueConfig(0, <<>>, 0) ELSE cfg[1],
     h |-> 0, qh |-> 0, fd |-> 0]

\* Mutant of RegisterArgs: the Queue is registered under a fixed id.
RegisterArgsFixedId(queueID, q) == [id |-> 0, q |-> q]

\* The arguments NewQueue passes to queueRegistry.Register: (queueID, q).
RegisterArgs(queueID, q) == [id |-> queueID, q |-> q]

\* NewQueue as one step: the Queue is built, registered and returned.
NewQueue(queueID, handler, cfg) ==
    /\ mutex = <<>>
    /\ LET q == Len(queues) + 1
           a == RegisterArgs(queueID, q)
       IN /\ queues' = Append(queues, MakeQueue(queueID, handler, cfg))
          /\ registry' = Register(registry, a.id, a.q)
          /\ reg' = [reg EXCEPT ![q] = [pc |-> "done", id |-> a.id, q |-> a.q]]
          /\ completed' = [completed EXCEPT ![queueID] = q]
    /\ UNCHANGED <<spc, sret, tpc, tret, startCalls, stopCalls, native,
                   dispatched, verdicts, loopEnd, mutex, look>>

\* NewQueue step by step, for callers on concurrent contexts: the Queue is
\* built and Register is called; Register takes the lock, writes the entry and
\* releases the lock, at which point NewQueue returns the Queue.
NewQueueCall(queueID, handler, cfg) ==
    /\ LET q == Len(queues) + 1
           a == RegisterArgs(queueID, q)
       IN /\ queues' = Append(queues, MakeQueue(queueID, handler, cfg))
          /\ reg' = [reg EXCEPT ![q] = [pc |-> "lock", id |-> a.id, q |-> a.q]]
    /\ UNCHANGED <<registry, spc, sret, tpc, tret, startCalls, stopCalls, native,
                   dispatched, verdicts, loopEnd, mutex, look, completed>>

LifeVars == <<spc, sret, tpc, tret, startCalls, stopCalls, native, dispatched,
              verdicts, loopEnd>>

RegisterLock(c) ==
    /\ reg[c].pc = "lock" /\ mutex = <<>>
    /\ mutex' = <<"Register", c>>
    /\ reg' = [reg EXCEPT ![c].pc = "write"]
    /\ UNCHANGED <<queues, registry, look, completed>>
    /\ UNCHANGED LifeVars

RegisterWrite(c) ==
    /\ reg[c].pc = "write"
    /\ registry' = Register(registry, reg[c].id, reg[c].q)
    /\ reg' = [reg EXCEPT ![c].pc = "unlock"]
    /\ UNCHANGED <<queues, mutex, look, completed>>
    /\ UNCHANGED LifeVars

RegisterUnlock(c) ==
    /\ reg[c].pc = "unlock"
    /\ mutex' = <<>>
    /\ reg' = [reg EXCEPT ![c].pc = "done"]
    /\ completed' = [completed EXCEPT ![queues[c].ID] = c]
    /\ UNCHANGED <<queues, registry, look>>
    /\ UNCHANGED LifeVars

\* Lookup(id) from a context of its own: lock, read, unlock.
LookupCall(l, id) ==
    /\ look[l].pc = "idle"
    /\ look' = [look EXCEPT ![l] = [pc |-> "lock", id |-> id, res |-> 0]]
    /\ UNCHANGED <<queues, registry, mutex, reg, completed>>
    /\ UNCHANGED LifeVars

LookupLock(l) ==
    /\ look[l].pc = "lock" /\ mutex = <<>>
    /\ mutex' = <<"Lookup", l>>
    /\ look' = [look EXCEPT ![l].pc = "read"]
    /\ UNCHANGED <<queues, registry, reg, completed>>
    /\ UNCHANGED LifeVars

LookupRead(l) ==
    /\ look[l].pc = "read"
    /\ look' = [look EXCEPT ![l].pc = "unlock", ![l].res = Lookup(registry, look[l].id)]
    /\ UNCHANGED <<queues, registry, mutex, reg, completed>>
    /\ UNCHANGED LifeVars

LookupUnlock(l) ==
    /\ look[l].pc = "unlock"
    /\ mutex' = <<>>
    /\ look' = [look EXCEPT ![l].pc = "done"]
    /\ UNCHANGED <<queues, registry, reg, completed>>
    /\ UNCHANGED LifeVars

\* ------------------------------------------------------------------- Start
StartFrame ==
    UNCHANGED <<registry, tpc, tret, stopCalls, dispatched, verdicts, mutex, reg, look,
                completed>>

Call(q, c) == startCalls' = [startCalls EXCEPT ![q] = Append(@, c)]

Return(q, r) ==
    /\ spc' = [spc EXCEPT ![q] = "returned"]
    /\ sret' = [sret EXCEPT ![q] = r]

Goto(q, pc) ==
    /\ spc' = [spc EXCEPT ![q] = pc]
    /\ UNCHANGED sret

\* native.ctx: contexts opened and not closed; native.binds: bindings created and
\* not destroyed; native.std: the standard descriptors still open; native.socks:
\* contexts whose socket is open; native.fdOf: the descriptor number of a
\* context's socket.  A context and its binding are named after the Queue
\* whose Start created them.
OpenFds == native.std \cup { native.fdOf[c] : c \in native.socks }

\* The lowest descriptor number that is not open.
LowestFreeFd ==
    CHOOSE n \in 0..Cardinality(OpenFds) :
        n \notin OpenFds /\ \A m \in 0..(n - 1) : m \in OpenFds

\* if q.h = C.nfq_open(); q.h == nil { return error }
StartOpen(q, ok) ==
    /\ q \in Created /\ spc[q] = "start"
    /\ Call(q, [fn |-> "nfq_open", ok |-> ok])
    /\ IF ok
       THEN LET fd == LowestFreeFd
            IN /\ queues' = [queues EXCEPT ![q].h = q]
               /\ native' = [native EXCEPT !.ctx = @ \cup {q}, !.socks = @ \cup {q},
                                           !.fdOf[q] = fd]
               /\ Goto(q, "create")
       ELSE /\ queues' = [queues EXCEPT ![q].h = 0]
            /\ UNCHANGED native
            /\ Return(q, "Error in nfq_open")
    /\ UNCHANGED loopEnd
    /\ StartFrame

\* if q.qh = C.nfqueue_create_queue(q.h, q.ID); q.qh == nil { return error }
StartCreate(q, ok) ==
    /\ spc[q] = "create"
    /\ Call(q, [fn |-> "nfqueue_create_queue", ok |-> ok, h |-> queues[q].h,
                id |-> queues[q].ID])
    /\ IF ok
       THEN /\ queues' = [queues EXCEPT ![q].qh = q]
            /\ native' = [native EXCEPT !.binds = @ \cup {q}]
            /\ Goto(q, "mode")
       ELSE /\ queues' = [queues EXCEPT ![q].qh = 0]
            /\ UNCHANGED native
            /\ Return(q, "Error in nfqueue_create_queue")
    /\ UNCHANGED loopEnd
    /\ StartFrame

AfterFlags(q) == "fd"

\* Mutant of AfterMaxlen: the flags step is skipped.
AfterMaxlenSkipsFlags(q) == "fd"

AfterMaxlen(q) == IF Len(queues[q].cfg.QueueFlags) > 0 THEN "flags" ELSE AfterFlags(q)
AfterMode(q) == IF queues[q].cfg.MaxPackets > 0 THEN "maxlen" ELSE AfterMaxlen(q)
\* Mutant of AfterFd: the receive buffer size is set whatever BufferSize is.
AfterFdAlwaysRcvbuf(q) == "rcvbuf"

AfterFd(q) == IF queues[q].cfg.BufferSize > 0 THEN "rcvbuf" ELSE "loop"

\* Mutant of StartMode: a failed nfq_set_mode is followed by nfq_close(q.h).
StartModeReleases(q, ok) ==
    /\ spc[q] = "mode"
    /\ LET c == [fn |-> "nfq_set_mode", ok |-> ok, qh |-> queues[q].qh,
                 mode |-> "NFQNL_COPY_PACKET", range |-> "MAX_PACKET_SIZE"]
       IN IF ok
          THEN /\ Call(q, c)
               /\ Goto(q, AfterMode(q))
               /\ UNCHANGED native
          ELSE /\ startCalls' = [startCalls EXCEPT ![q] =
                                    @ \o <<c, [fn |-> "nfq_close", ok |-> TRUE,
                                               h |-> queues[q].h]>>]
               /\ native' = [native EXCEPT !.ctx = @ \ {queues[q].h},
                                           !.socks = @ \ {queues[q].h}]
               /\ Return(q, "Error in nfq_set_mode")
    /\ UNCHANGED <<queues, loopEnd>>
    /\ StartFrame

\* Mutant of StartMode: the result of nfq_set_mode is not looked at.
StartModeUnchecked(q, ok) ==
    /\ spc[q] = "mode"
    /\ Call(q, [fn |-> "nfq_set_mode", ok |-> ok, qh |-> queues[q].qh,
                mode |-> "NFQNL_COPY_PACKET", range |-> "MAX_PACKET_SIZE"])
    /\ Goto(q, AfterMode(q))
    /\ UNCHANGED <<queues, native, loopEnd>>
    /\ StartFrame

\* if C.nfq_set_mode(q.qh, C.NFQNL_COPY_PACKET, C.MAX_PACKET_SIZE) < 0 { return error }
StartMode(q, ok) ==
    /\ spc[q] = "mode"
    /\ Call(q, [fn |-> "nfq_set_mode", ok |-> ok, qh |-> queues[q].qh,
                mode |-> "NFQNL_COPY_PACKET", range |-> "MAX_PACKET_SIZE"])
    /\ IF ok THEN Goto(q, AfterMode(q)) ELSE Return(q, "Error in nfq_set_mode")
    /\ UNCHANGED <<queues, native, loopEnd>>
    /\ StartFrame

\* if q.cfg.MaxPackets > 0 { if nfq_set_queue_maxlen(q.qh, MaxPackets) < 0 { return error } }
StartMaxlen(q, ok) ==
    /\ spc[q] = "maxlen"
    /\ Call(q, [fn |-> "nfq_set_queue_maxlen", ok |-> ok, qh |-> queues[q].qh,
                len |-> queues[q].cfg.MaxPackets])
    /\ IF ok THEN Goto(q, AfterMaxlen(q)) ELSE Return(q, "Error in nfq_set_queue_maxlen")
    /\ UNCHANGED <<queues, native, loopEnd>>
    /\ StartFrame

\* if len(q.cfg.QueueFlags) > 0 { flags := fold; nfq_set_queue_flags(q.qh, flags, flags) }
StartFlags(q, ok) ==
    /\ spc[q] = "flags"
    /\ LET flags == ComposeFlags(queues[q].cfg.QueueFlags)
       IN Call(q, [fn |-> "nfq_set_queue_flags", ok |-> ok, qh |-> queues[q].qh,
                   mask |-> flags, flags |-> flags])
    /\ IF ok THEN Goto(q, AfterFlags(q)) ELSE Return(q, "Error in nfq_set_queue_flags")
    /\ UNCHANGED <<queues, native, loopEnd>>
    /\ StartFrame

\* if q.fd = C.nfq_fd(q.h); q.fd < 0 { return error }
StartFd(q, ok) ==
    /\ spc[q] = "fd"
    /\ Call(q, [fn |-> "nfq_fd", ok |-> ok, h |-> queues[q].h])
    /\ IF ok
       THEN /\ queues' = [queues EXCEPT ![q].fd = native.fdOf[queues[q].h]]
            /\ Goto(q, AfterFd(q))
       ELSE /\ queues' = [queues EXCEPT ![q].fd = -1]
            /\ Return(q, "Error in nfq_fd")
    /\ UNCHANGED <<native, loopEnd>>
    /\ StartFrame

\* if q.cfg.BufferSize > 0 { C.nfnl_rcvbufsiz(C.nfq_nfnlh(q.h), BufferSize) }
\* the value nfnl_rcvbufsiz returns is not looked at
StartRcvbuf(q, ok) ==
    /\ spc[q] = "rcvbuf"
    /\ Call(q, [fn |-> "nfnl_rcvbufsiz", ok |-> ok, h |-> queues[q].h,
                size |-> queues[q].cfg.BufferSize])
    /\ Goto(q, "loop")
    /\ UNCHANGED <<queues, native, loopEnd>>
    /\ StartFrame

\* ret := C.nfqueue_loop(q.h, q.fd): the loop is entered
StartLoop(q) ==
    /\ spc[q] = "loop"
    /\ Call(q, [fn |-> "nfqueue_loop", ok |-> TRUE, h |-> queues[q].h, fd |-> queues[q].fd])
    /\ Goto(q, "recv")
    /\ UNCHANGED <<queues, native, loopEnd>>
    /\ StartFrame


\* ------------------------------------------- receive loop and the callback
\* The loop of binding b reads its socket while that socket is open and hands
\* each event to the callback.  The callback resolves the Queue through the
\* registry by the queue id the event carries, builds the Packet (buffer,
\* metadata, kernel-issued id, back-reference) and invokes the handler.
KernelId(b) == Len(dispatched[b]) + 1

\* Mutant of Dispatch: the next event is handed over while the handler of the
\* previous one has not returned.
DispatchWhileHandling(b) ==
    /\ spc[b] \in {"recv", "handle"}
    /\ b \in native.socks /\ b \in native.binds
    /\ Len(dispatched[b]) < MaxEvents
    /\ LET r == Lookup(registry, queues[b].ID)
           p == [Buffer |-> "data", Meta |-> "meta", id |-> KernelId(b), q |-> r]
       IN /\ dispatched' = [dispatched EXCEPT ![b] =
                               Append(@, [pkt |-> p, q |-> r,
                                          handler |-> queues[r].handler])]
          /\ spc' = [spc EXCEPT ![b] = "handle"]
    /\ UNCHANGED <<queues, registry, sret, tpc, tret, startCalls, stopCalls, native,
                   verdicts, loopEnd>>
    /\ UNCHANGED regVars

Dispatch(b) ==
    /\ spc[b] = "recv"
    /\ b \in native.socks /\ b \in native.binds
    /\ Len(dispatched[b]) < MaxEvents
    /\ LET r == Lookup(registry, queues[b].ID)
           p == [Buffer |-> "data", Meta |-> "meta", id |-> KernelId(b), q |-> r]
       IN IF r = 0
          THEN \* not found: the event ends there, no handler is invoked
               /\ dispatched' = [dispatched EXCEPT ![b] =
                                    Append(@, [pkt |-> p, q |-> 0, handler |-> "none"])]
               /\ UNCHANGED spc
          ELSE /\ dispatched' = [dispatched EXCEPT ![b] =
                                    Append(@, [pkt |-> p, q |-> r,
                                               handler |-> queues[r].handler])]
               /\ spc' = [spc EXCEPT ![b] = "handle"]
    /\ UNCHANGED <<queues, registry, sret, tpc, tret, startCalls, stopCalls, native,
                   verdicts, loopEnd>>
    /\ UNCHANGED regVars

\* Handle(p) returns to the loop.
HandlerReturn(b) ==
    /\ spc[b] = "handle"
    /\ spc' = [spc EXCEPT ![b] = "recv"]
    /\ UNCHANGED <<queues, registry, sret, tpc, tret, startCalls, stopCalls, native,
                   dispatched, verdicts, loopEnd>>
    /\ UNCHANGED regVars

\* The loop ends on a receive error or when its descriptor has been closed;
\* if ret < 0 { return error }; return nil
LoopReturn(q, why, ret) ==
    /\ spc[q] = "recv"
    /\ why = "closed" => q \notin native.socks
    /\ why = "error" => ret < 0
    /\ loopEnd' = [loopEnd EXCEPT ![q] = [why |-> why, ret |-> ret]]
    /\ Return(q, IF ret < 0 THEN "Error in nfqueue_loop" ELSE "nil")
    /\ UNCHANGED <<queues, registry, tpc, tret, startCalls, stopCalls, native,
                   dispatched, verdicts>>
    /\ UNCHANGED regVars

\* ----------------------------------------------------------------- verdicts
\* verdicts is the history of Accept/Drop/Modify invocations, in invocation
\* order: the Packet (the i-th event of binding b), the native calls the
\* invocation issued and the way it ended (nil, an error, or a run-time panic).
\* rets are the values the native calls returned; live tells, per call, whether
\* the handle it went through named a binding that existed at that moment.
Op(b, i, op, buffer, calls, rets, result) ==
    verdicts' = Append(verdicts, [b |-> b, i |-> i, op |-> op, buffer |-> buffer,
                                  calls |-> calls, rets |-> rets,
                                  live |-> [k \in 1..Len(calls) |->
                                               calls[k].qh \in native.binds],
                                  result |-> result])

\* Mutant of setVerdict: the call is tagged with the queue id, not the packet id.
setVerdictQueueId(b, i, op, verdict, len, buffer, ok) ==
    LET p == dispatched[b][i].pkt
        c == [fn |-> "nfq_set_verdict", qh |-> queues[p.q].qh, id |-> queues[p.q].ID + 7,
              verdict |-> verdict, len |-> len, buffer |-> buffer]
    IN Op(b, i, op, buffer, <<c>>, <<IF ok THEN 0 ELSE -1>>,
          IF ok THEN <<"nil">> ELSE <<"Error setting verdict", verdict, p.id>>)

\* Mutant of setVerdict: a Packet that has been given a verdict gets no second
\* native call.
setVerdictOnce(b, i, op, verdict, len, buffer, ok) ==
    LET p == dispatched[b][i].pkt
        c == [fn |-> "nfq_set_verdict", qh |-> queues[p.q].qh, id |-> p.id,
              verdict |-> verdict, len |-> len, buffer |-> buffer]
    IN IF \E k \in 1..Len(verdicts) :
              verdicts[k].b = b /\ verdicts[k].i = i /\ verdicts[k].calls # <<>>
       THEN Op(b, i, op, buffer, <<>>, <<>>, <<"Error verdict already set", verdict, p.id>>)
       ELSE Op(b, i, op, buffer, <<c>>, <<IF ok THEN 0 ELSE -1>>,
               IF ok THEN <<"nil">> ELSE <<"Error setting verdict", verdict, p.id>>)

\* Mutant of setVerdict: a failed nfq_set_verdict call is made a second time.
setVerdictRetries(b, i, op, verdict, len, buffer, ok) ==
    LET p == dispatched[b][i].pkt
        c == [fn |-> "nfq_set_verdict", qh |-> queues[p.q].qh, id |-> p.id,
              verdict |-> verdict, len |-> len, buffer |-> buffer]
    IN IF ok
       THEN Op(b, i, op, buffer, <<c>>, <<0>>, <<"nil">>)
       ELSE Op(b, i, op, buffer, <<c, c>>, <<-1, -1>>,
               <<"Error setting verdict", verdict, p.id>>)

\* func (p *Packet) setVerdict(verdict, len, buffer): one nfq_set_verdict call
\* through p.q.qh; a negative return is an error naming verdict and packet id.
setVerdict(b, i, op, verdict, len, buffer, ok) ==
    LET p == dispatched[b][i].pkt
        c == [fn |-> "nfq_set_verdict", qh |-> queues[p.q].qh, id |-> p.id,
              verdict |-> verdict, len |-> len, buffer |-> buffer]
    IN Op(b, i, op, buffer, <<c>>, <<IF ok THEN 0 ELSE -1>>,
          IF ok THEN <<"nil">> ELSE <<"Error setting verdict", verdict, p.id>>)

VerdictFrame ==
    UNCHANGED <<queues, registry, spc, sret, tpc, tret, startCalls, stopCalls, native,
                dispatched, loopEnd, mutex, reg, look, completed>>

\* Mutant of Accept: no native call is made once the binding is destroyed.
AcceptIfBound(b, i, ok) ==
    /\ Len(verdicts) < MaxVerdictOps
    /\ i \in 1..Len(dispatched[b]) /\ dispatched[b][i].q # 0
    /\ IF queues[dispatched[b][i].q].qh \in native.binds
       THEN setVerdict(b, i, "Accept", "NF_ACCEPT", 0, <<>>, ok)
       ELSE Op(b, i, "Accept", <<>>, <<>>, <<>>, <<"Error queue stopped">>)
    /\ VerdictFrame

\* return p.setVerdict(C.NF_ACCEPT, 0, nil)
Accept(b, i, ok) ==
    /\ Len(verdicts) < MaxVerdictOps
    /\ i \in 1..Len(dispatched[b]) /\ dispatched[b][i].q # 0
    /\ setVerdict(b, i, "Accept", "NF_ACCEPT", 0, <<>>, ok)
    /\ VerdictFrame

\* Mutant of Drop: a failed verdict ends the receive loop of the Packet's binding.
DropFailureEndsLoop(b, i, ok) ==
    /\ Len(verdicts) < MaxVerdictOps
    /\ i \in 1..Len(dispatched[b]) /\ dispatched[b][i].q # 0
    /\ setVerdict(b, i, "Drop", "NF_DROP", 0, <<>>, ok)
    /\ IF ok \/ spc[b] \notin {"recv", "handle"}
       THEN UNCHANGED <<spc, sret>>
       ELSE Return(b, "Error in nfqueue_loop")
    /\ UNCHANGED <<queues, registry, tpc, tret, startCalls, stopCalls, native,
                   dispatched, loopEnd, mutex, reg, look, completed>>

\* return p.setVerdict(C.NF_DROP, 0, nil)
Drop(b, i, ok) ==
    /\ Len(verdicts) < MaxVerdictOps
    /\ i \in 1..Len(dispatched[b]) /\ dispatched[b][i].q # 0
    /\ setVerdict(b, i, "Drop", "NF_DROP", 0, <<>>, ok)
    /\ VerdictFrame

\* return p.setVerdict(C.NF_ACCEPT, len(buffer), &buffer[0]): the argument
\* &buffer[0] is evaluated first, and indexing element 0 of an empty slice is a
\* run-time panic (index out of range), so setVerdict is not reached.
Modify(b, i, buffer, ok) ==
    /\ Len(verdicts) < MaxVerdictOps
    /\ i \in 1..Len(dispatched[b]) /\ dispatched[b][i].q # 0
    /\ IF Len(buffer) = 0
       THEN Op(b, i, "Modify", buffer, <<>>, <<>>, <<"panic", "index out of range [0]">>)
       ELSE setVerdict(b, i, "Modify", "NF_ACCEPT", Len(buffer), buffer, ok)
    /\ VerdictFrame

\* -------------------------------------------------------------------- Stop
StopFrame ==
    UNCHANGED <<queues, registry, spc, sret, startCalls, dispatched, verdicts, loopEnd,
                mutex, reg, look, completed>>

StopCall(q, c) == stopCalls' = [stopCalls EXCEPT ![q] = Append(@, c)]

StopReturn(q, r) ==
    /\ tpc' = [tpc EXCEPT ![q] = "returned"]
    /\ tret' = [tret EXCEPT ![q] = r]

StopGoto(q, pc) ==
    /\ tpc' = [tpc EXCEPT ![q] = pc]
    /\ UNCHANGED tret

\* close(fd) on the native side: a number that is not open fails; a failing
\* close of an open descriptor may or may not have released it.
CloseFd(n, released) ==
    [native EXCEPT !.std = IF released THEN @ \ {n} ELSE @,
                   !.socks = IF released THEN { c \in @ : native.fdOf[c] # n } ELSE @]

\* Mutant of StopClose: Stop acts only on a Queue whose receive loop runs.
StopCloseWhenRunning(q, ok, released) ==
    /\ q \in Created /\ tpc[q] = "close"
    /\ spc[q] \in {"recv", "handle"}
    /\ ok => (queues[q].fd \in OpenFds /\ released)
    /\ queues[q].fd \notin OpenFds => ~released
    /\ StopCall(q, [fn |-> "close", ok |-> ok, fd |-> queues[q].fd, running |-> TRUE])
    /\ native' = CloseFd(queues[q].fd, released)
    /\ IF ok THEN StopGoto(q, "destroy") ELSE StopReturn(q, "Error closing fd")
    /\ StopFrame

\* Mutant of StopClose: the descriptor closed is the zero value, not q.fd.
StopCloseZeroFd(q, ok, released) ==
    /\ q \in Created /\ tpc[q] = "close"
    /\ ok => (0 \in OpenFds /\ released)
    /\ 0 \notin OpenFds => ~released
    /\ StopCall(q, [fn |-> "close", ok |-> ok, fd |-> 0,
                    running |-> spc[q] \in {"recv", "handle"}])
    /\ native' = CloseFd(0, released)
    /\ IF ok THEN StopGoto(q, "destroy") ELSE StopReturn(q, "Error closing fd")
    /\ StopFrame

\* if C.close(q.fd) < 0 { return error }
StopClose(q, ok, released) ==
    /\ q \in Created /\ tpc[q] = "close"
    /\ ok => (queues[q].fd \in OpenFds /\ released)
    /\ queues[q].fd \notin OpenFds => ~released
    /\ StopCall(q, [fn |-> "close", ok |-> ok, fd |-> queues[q].fd,
                    running |-> spc[q] \in {"recv", "handle"}])
    /\ native' = CloseFd(queues[q].fd, released)
    /\ IF ok THEN StopGoto(q, "destroy") ELSE StopReturn(q, "Error closing fd")
    /\ StopFrame

\* Mutant of StopDestroy: every binding of the process is destroyed.
StopDestroyAll(q, ok) ==
    /\ tpc[q] = "destroy"
    /\ StopCall(q, [fn |-> "nfq_destroy_queue", ok |-> ok, qh |-> queues[q].qh])
    /\ native' = [native EXCEPT !.binds = IF ok THEN {} ELSE @]
    /\ IF ok THEN StopGoto(q, "closectx") ELSE StopReturn(q, "Error in nfq_destroy_queue")
    /\ StopFrame

\* if C.nfq_destroy_queue(q.qh) < 0 { return error }
StopDestroy(q, ok) ==
    /\ tpc[q] = "destroy"
    /\ StopCall(q, [fn |-> "nfq_destroy_queue", ok |-> ok, qh |-> queues[q].qh])
    /\ native' = [native EXCEPT !.binds = IF ok THEN @ \ {queues[q].qh} ELSE @]
    /\ IF ok THEN StopGoto(q, "closectx") ELSE StopReturn(q, "Error in nfq_destroy_queue")
    /\ StopFrame

\* Mutant of StopCloseCtx: a Stop that closed the context takes the Queue out
\* of the registry.
StopCloseCtxUnregisters(q, ok) ==
    /\ tpc[q] = "closectx"
    /\ StopCall(q, [fn |-> "nfq_close", ok |-> ok, h |-> queues[q].h])
    /\ native' = [native EXCEPT !.ctx = IF ok THEN @ \ {queues[q].h} ELSE @,
                                !.socks = IF ok THEN @ \ {queues[q].h} ELSE @]
    /\ registry' = IF ok THEN [registry EXCEPT ![queues[q].ID] = 0] ELSE registry
    /\ StopReturn(q, IF ok THEN "nil" ELSE "Error in nfq_close")
    /\ UNCHANGED <<queues, spc, sret, startCalls, dispatched, verdicts, loopEnd,
                   mutex, reg, look, completed>>

\* if C.nfq_close(q.h) < 0 { return error }; return nil
StopCloseCtx(q, ok) ==
    /\ tpc[q] = "closectx"
    /\ StopCall(q, [fn |-> "nfq_close", ok |-> ok, h |-> queues[q].h])
    /\ native' = [native EXCEPT !.ctx = IF ok THEN @ \ {queues[q].h} ELSE @,
                                !.socks = IF ok THEN @ \ {queues[q].h} ELSE @]
    /\ StopReturn(q, IF ok THEN "nil" ELSE "Error in nfq_close")
    /\ StopFrame

\* ----------------------------------------------------------- specifications
\* Spec: the lifecycle of a Queue.  NewQueue with every configuration, Start
\* with every native call failing or succeeding, Stop from another context at
\* any moment with every release step failing or succeeding.  No event arrives.
Next ==
    \/ \E id \in QueueIds, hd \in Handlers, cfg \in CfgInputs :
          queues = <<>> /\ NewQueue(id, hd, cfg)
    \/ \E q \in QueueRefs, ok \in BOOLEAN : StartOpen(q, ok)
    \/ \E q \in QueueRefs, ok \in BOOLEAN : StartCreate(q, ok)
    \/ \E q \in QueueRefs, ok \in BOOLEAN : StartMode(q, ok)
    \/ \E q \in QueueRefs, ok \in BOOLEAN : StartMaxlen(q, ok)
    \/ \E q \in QueueRefs, ok \in BOOLEAN : StartFlags(q, ok)
    \/ \E q \in QueueRefs, ok \in BOOLEAN : StartFd(q, ok)
    \/ \E q \in QueueRefs, ok \in BOOLEAN : StartRcvbuf(q, ok)
    \/ \E q \in QueueRefs : StartLoop(q)
    \/ \E q \in QueueRefs, why \in {"closed", "error"}, ret \in {-1, 0} : LoopReturn(q, why, ret)
    \/ \E q \in QueueRefs, ok \in BOOLEAN, rel \in BOOLEAN : StopClose(q, ok, rel)
    \/ \E q \in QueueRefs, ok \in BOOLEAN : StopDestroy(q, ok)
    \/ \E q \in QueueRefs, ok \in BOOLEAN : StopCloseCtx(q, ok)

Spec == Init /\ [][Next]_vars

\* The steps of a Start whose native set-up calls succeed, on a Queue created
\* with a nil configuration (which skips the optional steps).
StartUp ==
    \/ \E q \in QueueRefs : StartOpen(q, TRUE)
    \/ \E q \in QueueRefs : StartCreate(q, TRUE)
    \/ \E q \in QueueRefs : StartMode(q, TRUE)
    \/ \E q \in QueueRefs : StartFd(q, TRUE)
    \/ \E q \in QueueRefs : StartLoop(q)

\* The receive loop, the callback and the handler.
Intake ==
    \/ \E q \in QueueRefs : Dispatch(q)
    \/ \E q \in QueueRefs : HandlerReturn(q)
    \/ \E q \in QueueRefs, why \in {"closed", "error"}, ret \in {-1, 0} : LoopReturn(q, why, ret)

\* The verdict operations, on any Packet delivered so far, with the native
\* set-verdict call ending as Oks allows.
Verdicts(Oks) ==
    \/ \E q \in QueueRefs, i \in 1..MaxEvents, ok \in Oks : Accept(q, i, ok)
    \/ \E q \in QueueRefs, i \in 1..MaxEvents, ok \in Oks : Drop(q, i, ok)
    \/ \E q \in QueueRefs, i \in 1..MaxEvents, bf \in Buffers, ok \in Oks : Modify(q, i, bf, ok)

\* SpecPkt: a running Queue with traffic, stopped from another context.
NextPkt ==
    \/ \E id \in QueueIds, hd \in Handlers :
          queues = <<>> /\ NewQueue(id, hd, <<>>)
    \/ StartUp
    \/ Intake
    \/ Verdicts(BOOLEAN)
    \/ \E q \in QueueRefs, ok \in BOOLEAN, rel \in BOOLEAN : StopClose(q, ok, rel)
    \/ \E q \in QueueRefs, ok \in BOOLEAN : StopDestroy(q, ok)
    \/ \E q \in QueueRefs, ok \in BOOLEAN : StopCloseCtx(q, ok)

SpecPkt == Init /\ [][NextPkt]_vars

\* SpecMulti: several Queues, created at any moment under any ids, running
\* concurrently with traffic; no loop ends.
NextMulti ==
    \/ \E id \in QueueIds, hd \in Handlers :
          Len(queues) < MaxQueues /\ NewQueue(id, hd, <<>>)
    \/ StartUp
    \/ \E q \in QueueRefs : Dispatch(q)
    \/ \E q \in QueueRefs : HandlerReturn(q)
    \/ Verdicts(BOOLEAN)

SpecMulti == Init /\ [][NextMulti]_vars

\* SpecReg: NewQueue calls on concurrent contexts, with every id, handler and
\* configuration, and Lookup calls racing them.
NextReg ==
    \/ \E id \in QueueIds, hd \in Handlers, cfg \in CfgInputs :
          Len(queues) < MaxQueues /\ NewQueueCall(id, hd, cfg)
    \/ \E c \in QueueRefs : RegisterLock(c)
    \/ \E c \in QueueRefs : RegisterWrite(c)
    \/ \E c \in QueueRefs : RegisterUnlock(c)
    \/ \E l \in Lookers, id \in QueueIds : LookupCall(l, id)
    \/ \E l \in Lookers : LookupLock(l)
    \/ \E l \in Lookers : LookupRead(l)
    \/ \E l \in Lookers : LookupUnlock(l)

SpecReg == Init /\ [][NextReg]_vars

\* SpecOwn: several Queues, each started and stopped at any moment, every
\* release step of Stop failing or succeeding; each loop hands one event to
\* its handler, which gives verdicts on the Packet and does not return.  The
\* handlers do nothing else, so one handler stands for all.
NextOwn ==
    \/ \E id \in QueueIds :
          Len(queues) < MaxQueues /\ NewQueue(id, "hA", <<>>)
    \/ StartUp
    \/ \E q \in QueueRefs, ok \in BOOLEAN, rel \in BOOLEAN : StopClose(q, ok, rel)
    \/ \E q \in QueueRefs, ok \in BOOLEAN : StopDestroy(q, ok)
    \/ \E q \in QueueRefs, ok \in BOOLEAN : StopCloseCtx(q, ok)
    \/ \E q \in QueueRefs : Dispatch(q)
    \/ \E q \in QueueRefs, i \in 1..MaxEvents : Drop(q, i, TRUE)

SpecOwn == Init /\ [][NextOwn]_vars

\* FairSpec: a running Queue with traffic, stopped from another context, under
\* fair scheduling: the context inside Start takes its next step (a handler
\* that was invoked returns, a loop whose descriptor is closed ends), and so
\* does the context inside Stop.  Events and receive errors come from outside
\* and nothing makes them happen.
NextFair ==
    \/ \E id \in QueueIds, hd \in Handlers :
          queues = <<>> /\ NewQueue(id, hd, <<>>)
    \/ StartUp
    \/ Intake
    \/ \E q \in QueueRefs, ok \in BOOLEAN, rel \in BOOLEAN : StopClose(q, ok, rel)
    \/ \E q \in QueueRefs, ok \in BOOLEAN : StopDestroy(q, ok)
    \/ \E q \in QueueRefs, ok \in BOOLEAN : StopCloseCtx(q, ok)

StartContext(q) ==
    \/ StartOpen(q, TRUE) \/ StartCreate(q, TRUE) \/ StartMode(q, TRUE)
    \/ StartFd(q, TRUE) \/ StartLoop(q)
    \/ HandlerReturn(q)
    \/ \E ret \in {-1, 0} : LoopReturn(q, "closed", ret)

StopContext(q) ==
    \/ \E ok \in BOOLEAN : StopDestroy(q, ok)
    \/ \E ok \in BOOLEAN : StopCloseCtx(q, ok)

FairSpec ==
    /\ Init /\ [][NextFair]_vars
    /\ \A q \in QueueRefs : WF_vars(StartContext(q)) /\ WF_vars(StopContext(q))

\* ------------------------------------------------------------------ claims
Fns(calls) == [k \in 1..Len(calls) |-> calls[k].fn]

ReleaseOrder == <<"close", "nfq_destroy_queue", "nfq_close">>

\* C1: a Stop invoked while the receive loop runs (after a successful Start)
\* has, when it returns, issued close, nfq_destroy_queue and nfq_close, each
\* once and in that order, whatever each of them returned.
C1_StopIssuesAllReleases ==
    \A q \in Created :
        (tpc[q] = "returned" /\ stopCalls[q][1].running)
            => Fns(stopCalls[q]) = ReleaseOrder

\* C2: the mask Start passes to nfq_set_queue_flags is the bitwise OR of all
\* the flag bits of QueueConfig.QueueFlags.
C2_FlagMaskIsOrOfFlags ==
    \A q \in Created : \A k \in 1..Len(startCalls[q]) :
        startCalls[q][k].fn = "nfq_set_queue_flags"
            => /\ startCalls[q][k].mask = OrOfFlags(queues[q].cfg.QueueFlags)
               /\ startCalls[q][k].flags = OrOfFlags(queues[q].cfg.QueueFlags)

\* C3: a Modify with an empty buffer ends in a validation error returned to the
\* caller, without a panic and without a native set-verdict call.
C3_EmptyModifyIsRejected ==
    \A k \in 1..Len(verdicts) :
        (verdicts[k].op = "Modify" /\ Len(verdicts[k].buffer) = 0)
            => /\ verdicts[k].result[1] = "validation error"
               /\ verdicts[k].calls = <<>>

\* The native call an operation e of the verdict history is to issue through
\* binding handle qh: Accept and Modify send NF_ACCEPT, Drop sends NF_DROP; only
\* Modify sends a length and a buffer.
VerdictCall(e, qh) ==
    [fn |-> "nfq_set_verdict", qh |-> qh, id |-> dispatched[e.b][e.i].pkt.id,
     verdict |-> IF e.op = "Drop" THEN "NF_DROP" ELSE "NF_ACCEPT",
     len |-> IF e.op = "Modify" THEN Len(e.buffer) ELSE 0,
     buffer |-> IF e.op = "Modify" THEN e.buffer ELSE <<>>]

NonEmptyOp(e) == e.op \in {"Accept", "Drop"} \/ Len(e.buffer) > 0

\* C4 as stated: every Accept, Drop or Modify(non-empty buffer) issues exactly
\* one nfq_set_verdict call, tagged with the packet's id, with the verdict,
\* length and buffer of the operation, through the binding handle of the Queue
\* whose binding delivered the packet.
C4_VerdictThroughDeliveringQueue ==
    [][Len(verdicts') = Len(verdicts) + 1 =>
          LET e == verdicts'[Len(verdicts')]
          IN NonEmptyOp(e) => e.calls = <<VerdictCall(e, queues[e.b].qh)>>]_vars

\* C4 amended: ... through the binding handle held by the Queue the Packet
\* refers to (p.q, the Queue the registry returned for the event's id).
C4_VerdictThroughPacketQueue ==
    [][Len(verdicts') = Len(verdicts) + 1 =>
          LET e == verdicts'[Len(verdicts')]
          IN NonEmptyOp(e) =>
                e.calls = <<VerdictCall(e, queues[dispatched[e.b][e.i].q].qh)>>]_vars

\* A Modify with a non-empty buffer was issued on a Packet that refers to another
\* Queue than the one whose binding delivered it.
C4_Witness ==
    \E k \in 1..Len(verdicts) :
        /\ verdicts[k].op = "Modify" /\ Len(verdicts[k].buffer) > 0
        /\ Len(verdicts[k].calls) = 1
        /\ dispatched[verdicts[k].b][verdicts[k].i].q # verdicts[k].b

\* C5: in the state NewQueue(id, handler, cfg) returns Queue c in, Lookup(id)
\* is c, for every id and every configuration (nil included).
C5_LookupAfterNewQueue ==
    [][\A c \in QueueRefs :
          (reg[c].pc = "unlock" /\ reg'[c].pc = "done")
              => Lookup(registry', queues'[c].ID) = c]_vars

\* A second NewQueue has returned, for an id that was registered before.
C5_Witness ==
    /\ Len(queues) = 2 /\ reg[1].pc = "done" /\ reg[2].pc = "done"
    /\ queues[1].ID = queues[2].ID
    /\ queues[2].cfg = QueueConfig(0, <<>>, 0)
    /\ Lookup(registry, queues[2].ID) = 2

\* C6: registering a second Queue under a registered id replaces the entry,
\* and whatever the interleaving of Register and Lookup calls, what a Lookup(id)
\* reads is the Queue of the most recently completed Register of that id, or
\* not found (0) when none has completed.
C6_LookupReadsLastCompleted ==
    [][\A l \in Lookers :
          (look[l].pc = "read" /\ look'[l].pc = "unlock")
              => look'[l].res = completed[look[l].id]]_vars

\* A Lookup returned the second of two Queues registered under one id.
C6_Witness ==
    \E l \in Lookers :
        /\ look[l].pc = "done" /\ look[l].res = 2
        /\ Len(queues) = 2 /\ queues[1].ID = queues[2].ID
        /\ reg[1].pc = "done"

\* The native calls of a Start that runs to the receive loop, for the
\* configuration of Queue q.
ExpectedCalls(q) ==
    <<"nfq_open", "nfqueue_create_queue", "nfq_set_mode">>
    \o (IF queues[q].cfg.MaxPackets > 0 THEN <<"nfq_set_queue_maxlen">> ELSE <<>>)
    \o (IF Len(queues[q].cfg.QueueFlags) > 0 THEN <<"nfq_set_queue_flags">> ELSE <<>>)
    \o <<"nfq_fd">>
    \o (IF queues[q].cfg.BufferSize > 0 THEN <<"nfnl_rcvbufsiz">> ELSE <<>>)
    \o <<"nfqueue_loop">>

IsPrefix(s, t) == Len(s) <= Len(t) /\ \A k \in 1..Len(s) : s[k] = t[k]

LoopEntered(q) == \E k \in 1..Len(startCalls[q]) : startCalls[q][k].fn = "nfqueue_loop"

\* The native calls of Start whose result Start looks at (all but nfnl_rcvbufsiz).
CheckedStep(c) == c.fn # "nfnl_rcvbufsiz"

\* C7: the native calls of Start occur in the fixed order open, bind, set-mode,
\* set-max-length (if requested), set-flags (if requested), get-descriptor,
\* set-receive-buffer-size (if requested), run-loop; and the loop is entered
\* only if every call before it whose result Start looks at succeeded and
\* context, binding and descriptor were obtained.
C7_StartCallsInOrder ==
    \A q \in Created :
        /\ IsPrefix(Fns(startCalls[q]), ExpectedCalls(q))
        /\ LoopEntered(q) =>
              /\ \A k \in 1..Len(startCalls[q]) :
                    CheckedStep(startCalls[q][k]) => startCalls[q][k].ok
              /\ queues[q].h # 0 /\ queues[q].qh # 0 /\ queues[q].fd >= 0

\* A Start with all three optional steps requested has entered the loop.
C7_Witness ==
    \E q \in Created :
        /\ Len(startCalls[q]) = 8 /\ LoopEntered(q)
        /\ spc[q] = "recv"

ErrorOf(fn) ==
    CASE fn = "nfq_open" -> "Error in nfq_open"
      [] fn = "nfqueue_create_queue" -> "Error in nfqueue_create_queue"
      [] fn = "nfq_set_mode" -> "Error in nfq_set_mode"
      [] fn = "nfq_set_queue_maxlen" -> "Error in nfq_set_queue_maxlen"
      [] fn = "nfq_set_queue_flags" -> "Error in nfq_set_queue_flags"
      [] fn = "nfq_fd" -> "Error in nfq_fd"
      [] OTHER -> "Error in nfqueue_loop"

\* C8: a failing native step of Start is the last call Start makes, Start has
\* then returned the error that names that step, and no step is called twice; a
\* loop that returns a negative value gives the loop error; Start returns nil
\* only if every call succeeded and the loop returned a non-negative value.
C8_StartFailsAtFailingStep ==
    \A q \in Created :
        /\ \A k \in 1..Len(startCalls[q]) :
              (CheckedStep(startCalls[q][k]) /\ ~startCalls[q][k].ok) =>
                  /\ k = Len(startCalls[q])
                  /\ spc[q] = "returned"
                  /\ sret[q] = ErrorOf(startCalls[q][k].fn)
        /\ \A j, k \in 1..Len(startCalls[q]) :
              j # k => startCalls[q][j].fn # startCalls[q][k].fn
        /\ (loopEnd[q].why # "none" /\ loopEnd[q].ret < 0)
              => sret[q] = "Error in nfqueue_loop"
        /\ sret[q] = "nil" =>
              /\ \A k \in 1..Len(startCalls[q]) :
                    CheckedStep(startCalls[q][k]) => startCalls[q][k].ok
              /\ LoopEntered(q)
              /\ loopEnd[q].why # "none" /\ loopEnd[q].ret >= 0

\* Start has failed at get-descriptor, after the optional max-length and flags
\* steps succeeded.
C8_Witness ==
    \E q \in Created :
        /\ sret[q] = "Error in nfq_fd"
        /\ Len(startCalls[q]) = 6

\* C9 as stated: every event delivered to a running Queue b is handed, once, to
\* the handler of b, with a Packet that has metadata and carries the
\* kernel-issued id.
C9_EventToOwnHandler ==
    \A b \in Created : \A i \in 1..Len(dispatched[b]) :
        /\ dispatched[b][i].q # 0
        /\ dispatched[b][i].handler = queues[b].handler
        /\ dispatched[b][i].pkt.Meta # "nil"
        /\ dispatched[b][i].pkt.id = i

\* No Queue created after b has the id of b.
LatestWithItsId(b) == \A r \in Created : r > b => queues[r].ID # queues[b].ID

\* C9 amended: every event delivered to a running Queue b is handed, once, to
\* the handler of the Queue registered under b's id at that moment (a Queue
\* with the id of b), with a Packet that has metadata, carries the
\* kernel-issued id and refers to that Queue; that Queue is b itself as long
\* as no later NewQueue has taken b's id.
C9_EventToRegisteredHandler ==
    \A b \in Created : \A i \in 1..Len(dispatched[b]) :
        LET e == dispatched[b][i]
        IN /\ e.q \in Created
           /\ queues[e.q].ID = queues[b].ID
           /\ e.handler = queues[e.q].handler
           /\ e.pkt.q = e.q
           /\ e.pkt.Meta # "nil"
           /\ e.pkt.id = i
           /\ LatestWithItsId(b) => e.q = b

\* A running Queue got its first event itself and, its id having been taken by
\* a later NewQueue, saw its second event go to the other Queue's handler.
C9_Witness ==
    \E b \in Created :
        /\ Len(dispatched[b]) = 2
        /\ dispatched[b][1].q = b
        /\ dispatched[b][2].q # b
        /\ dispatched[b][2].handler # queues[b].handler

StoppedWhileRunning(q) == Len(stopCalls[q]) >= 1 /\ stopCalls[q][1].running

C11_FailedVerdictIsReported ==
    [][Len(verdicts') = Len(verdicts) + 1 =>
          LET e == verdicts'[Len(verdicts')]
              p == dispatched[e.b][e.i].pkt
          IN /\ Len(e.calls) <= 1 /\ Len(e.rets) = Len(e.calls)
             /\ NonEmptyOp(e) =>
                   /\ Len(e.calls) = 1
                   /\ e.rets[1] < 0 =>
                         e.result = <<"Error setting verdict", e.calls[1].verdict, p.id>>
                   /\ e.rets[1] >= 0 => e.result = <<"nil">>
             /\ queues' = queues /\ dispatched' = dispatched
             /\ registry' = registry /\ native' = native]_vars

\* A Drop failed at the native layer and the caller's second Drop on the same
\* Packet went through.
C11_Witness ==
    /\ Len(verdicts) = 2
    /\ verdicts[1].op = "Drop" /\ verdicts[1].rets = <<-1>>
    /\ verdicts[1].result = <<"Error setting verdict", "NF_DROP", 1>>
    /\ verdicts[2].op = "Drop" /\ verdicts[2].rets = <<0>>
    /\ verdicts[2].i = verdicts[1].i /\ verdicts[2].b = verdicts[1].b

\* C12: Start issues no release call; and when Start has returned an error
\* after nfq_open succeeded, with no Stop invoked on the Queue, the context is
\* still open, and so is the binding if nfqueue_create_queue succeeded.
C12_FailedStartReleasesNothing ==
    \A q \in Created :
        /\ \A k \in 1..Len(startCalls[q]) :
              startCalls[q][k].fn \notin {"close", "nfq_destroy_queue", "nfq_close"}
        /\ ( /\ spc[q] = "returned" /\ sret[q] # "nil"
             /\ startCalls[q][1].ok
             /\ stopCalls[q] = <<>> )
              => /\ queues[q].h \in native.ctx
                 /\ queues[q].h \in native.socks
                 /\ (Len(startCalls[q]) >= 2 /\ startCalls[q][2].ok)
                       => queues[q].qh \in native.binds

\* Start failed at set-flags and returned with context and binding still held.
C12_Witness ==
    \E q \in Created :
        /\ sret[q] = "Error in nfq_set_queue_flags"
        /\ stopCalls[q] = <<>>
        /\ queues[q].h \in native.ctx /\ queues[q].qh \in native.binds

\* The argument of the release call just added to the calls of Stop on q, and
\* the field of q it is read from.
StopArg(c) ==
    CASE c.fn = "close" -> c.fd
      [] c.fn = "nfq_destroy_queue" -> c.qh
      [] OTHER -> c.h

StopField(q, c) ==
    CASE c.fn = "close" -> queues[q].fd
      [] c.fn = "nfq_destroy_queue" -> queues[q].qh
      [] OTHER -> queues[q].h

\* C13: wherever the context that calls Start on a Queue stands, a Stop called
\* on that Queue can take its close step, and each release call of Stop is
\* given whatever the field of the Queue holds at that moment, the zero value
\* included.
C13_StopRacesStart ==
    /\ [](\A q \in Created :
            tpc[q] = "close" =>
                ENABLED (\E ok \in BOOLEAN, rel \in BOOLEAN : StopClose(q, ok, rel)))
    /\ [][\A q \in Created :
            Len(stopCalls'[q]) > Len(stopCalls[q]) =>
                LET c == stopCalls'[q][Len(stopCalls'[q])]
                IN StopArg(c) = StopField(q, c)]_vars

\* Stop ran between open-context and bind-queue: it closed descriptor 0 and
\* called nfq_destroy_queue on a null binding handle.
C13_Witness ==
    \E q \in Created :
        /\ spc[q] = "create" /\ queues[q].h # 0
        /\ Len(stopCalls[q]) >= 2
        /\ stopCalls[q][1].fn = "close" /\ stopCalls[q][1].fd = 0
        /\ stopCalls[q][2].fn = "nfq_destroy_queue" /\ stopCalls[q][2].qh = 0

\* The native set-verdict calls made for the packets of binding b that carry
\* packet id n, as (operation, call) positions of the verdict history.
NativeCallsWithId(b, n) ==
    { kj \in (1..Len(verdicts)) \X (1..2) :
        /\ verdicts[kj[1]].b = b
        /\ kj[2] <= Len(verdicts[kj[1]].calls)
        /\ verdicts[kj[1]].calls[kj[2]].id = n }

\* The Accept, Drop and Modify(non-empty buffer) invocations on the i-th Packet
\* of binding b.
OpsOn(b, i) ==
    { k \in 1..Len(verdicts) :
        verdicts[k].b = b /\ verdicts[k].i = i /\ NonEmptyOp(verdicts[k]) }

\* C14 as stated: whatever the handler does, the native layer gets at most one
\* set-verdict call for each delivered packet id.
C14_OneVerdictPerPacketId ==
    \A b \in Created : \A i \in 1..Len(dispatched[b]) :
        Cardinality(NativeCallsWithId(b, dispatched[b][i].pkt.id)) <= 1

\* C14 amended: the native layer gets one set-verdict call for each Accept,
\* Drop or Modify(non-empty buffer) invoked on the Packet: one call per packet
\* id when the handler invokes one operation, two when it invokes two.
C14_OneVerdictPerOperation ==
    \A b \in Created : \A i \in 1..Len(dispatched[b]) :
        Cardinality(NativeCallsWithId(b, dispatched[b][i].pkt.id))
            = Cardinality(OpsOn(b, i))

\* Accept and then Drop were invoked on one Packet and both reached the native
\* layer with the same packet id.
C14_Witness ==
    /\ Len(verdicts) = 2
    /\ verdicts[1].op = "Accept" /\ verdicts[2].op = "Drop"
    /\ verdicts[1].b = verdicts[2].b /\ verdicts[1].i = verdicts[2].i
    /\ Len(verdicts[1].calls) = 1 /\ Len(verdicts[2].calls) = 1
    /\ verdicts[1].calls[1].id = verdicts[2].calls[1].id

\* The calls of fn that Start on q has made.
CallsOf(q, fn) == { k \in 1..Len(startCalls[q]) : startCalls[q][k].fn = fn }

\* C15: set-max-length is called only if MaxPackets > 0 and with MaxPackets,
\* set-flags only if QueueFlags is not empty, set-receive-buffer-size only if
\* BufferSize > 0 and with BufferSize; a Start that entered the loop has made
\* each requested call once and set-mode once, with packet-copy mode and the
\* fixed maximum packet size; and whatever set-receive-buffer-size returns,
\* Start goes on to the loop.
C15_OptionalStepsWhenRequested ==
    \A q \in Created :
        LET cfg == queues[q].cfg
            calls == startCalls[q]
        IN /\ \A k \in CallsOf(q, "nfq_set_queue_maxlen") :
                 cfg.MaxPackets > 0 /\ calls[k].len = cfg.MaxPackets
           /\ \A k \in CallsOf(q, "nfq_set_queue_flags") : Len(cfg.QueueFlags) > 0
           /\ \A k \in CallsOf(q, "nfnl_rcvbufsiz") :
                 /\ cfg.BufferSize > 0 /\ calls[k].size = cfg.BufferSize
                 /\ spc[q] \in {"loop", "recv", "returned"}
                 /\ spc[q] = "returned" => LoopEntered(q)
           /\ \A k \in CallsOf(q, "nfq_set_mode") :
                 calls[k].mode = "NFQNL_COPY_PACKET" /\ calls[k].range = "MAX_PACKET_SIZE"
           /\ (Len(calls) >= 2 /\ calls[2].ok /\ spc[q] # "mode")
                 => Cardinality(CallsOf(q, "nfq_set_mode")) = 1
           /\ LoopEntered(q) =>
                 /\ Cardinality(CallsOf(q, "nfq_set_queue_maxlen"))
                       = IF cfg.MaxPackets > 0 THEN 1 ELSE 0
                 /\ Cardinality(CallsOf(q, "nfq_set_queue_flags"))
                       = IF Len(cfg.QueueFlags) > 0 THEN 1 ELSE 0
                 /\ Cardinality(CallsOf(q, "nfnl_rcvbufsiz"))
                       = IF cfg.BufferSize > 0 THEN 1 ELSE 0

\* nfnl_rcvbufsiz failed, the loop was entered all the same and Start returned
\* nil; max-length was not requested and not set.
C15_Witness ==
    \E q \in Created :
        /\ \E k \in CallsOf(q, "nfnl_rcvbufsiz") : ~startCalls[q][k].ok
        /\ CallsOf(q, "nfq_set_queue_maxlen") = {}
        /\ sret[q] = "nil"

\* An event can reach the loop of Queue b: the loop waits in its receive call,
\* its socket and its binding exist, and the kernel has an event for it.
CanReceive(b) ==
    /\ spc[b] = "recv" /\ b \in native.socks /\ b \in native.binds
    /\ Len(dispatched[b]) < MaxEvents

\* C16: the loop of a Queue hands over an event only while it waits in its
\* receive call, that is after the handler invocation for the previous event
\* has returned, and one event at a time; and a Queue whose loop can receive
\* gets its next event dispatched whatever the handlers of the other Queues
\* are doing, one that has not returned included.
C16_HandlerSerializedPerQueue ==
    /\ [][\A b \in Created :
            dispatched'[b] # dispatched[b] =>
                /\ spc[b] = "recv"
                /\ Len(dispatched'[b]) = Len(dispatched[b]) + 1
                /\ spc'[b] = "handle"]_vars
    /\ [](\A a \in Created, b \in Created :
            (a # b /\ spc[a] = "handle" /\ CanReceive(b)) => ENABLED Dispatch(b))

\* The handler of one Queue has not returned from its first event while the
\* other Queue, under another id, has had two events handled by its own handler.
C16_Witness ==
    \E a \in Created, b \in Created :
        /\ a # b /\ queues[a].ID # queues[b].ID
        /\ spc[a] = "handle" /\ Len(dispatched[a]) = 1
        /\ Len(dispatched[b]) = 2 /\ spc[b] = "recv"
        /\ dispatched[b][2].handler = queues[b].handler

\* C17: Accept, Drop and Modify can be invoked on a delivered Packet whatever
\* Stop has done to its Queue, and each invocation (with a non-empty buffer for
\* Modify) makes its native set-verdict call through the binding handle the
\* Queue holds, also when that binding has been destroyed.
C17_VerdictAfterStopNotPrevented ==
    /\ [](\A b \in Created : \A i \in 1..Len(dispatched[b]) :
            (dispatched[b][i].q # 0 /\ Len(verdicts) < MaxVerdictOps)
                => /\ ENABLED Accept(b, i, TRUE)
                   /\ ENABLED Drop(b, i, TRUE)
                   /\ \A bf \in Buffers : ENABLED Modify(b, i, bf, TRUE))
    /\ [][Len(verdicts') = Len(verdicts) + 1 =>
            LET e == verdicts'[Len(verdicts')]
                qh == queues[dispatched[e.b][e.i].q].qh
            IN NonEmptyOp(e) =>
                  /\ Len(e.calls) = 1 /\ e.calls[1].qh = qh
                  /\ e.live[1] <=> qh \in native.binds]_vars

\* A Packet was delivered, Stop destroyed the binding, and an Accept on the
\* Packet then made its native call through the destroyed binding's handle.
C17_Witness ==
    \E k \in 1..Len(verdicts) :
        LET e == verdicts[k]
        IN /\ e.op = "Accept" /\ Len(e.calls) = 1 /\ ~e.live[1]
           /\ e.calls[1].qh = queues[e.b].qh
           /\ \E j \in 1..Len(stopCalls[e.b]) :
                 stopCalls[e.b][j].fn = "nfq_destroy_queue" /\ stopCalls[e.b][j].ok

\* C18: a verdict operation, failed or not, moves neither the loop nor Start:
\* position, return value and native calls of Start and the loop's ending
\* are unchanged by it; after it the handler in progress can return and a loop
\* that can receive gets its next event dispatched.
C18_VerdictFailureKeepsLoop ==
    /\ [][Len(verdicts') = Len(verdicts) + 1 =>
            /\ spc' = spc /\ sret' = sret
            /\ loopEnd' = loopEnd /\ startCalls' = startCalls]_vars
    /\ [](\A b \in Created :
            /\ spc[b] = "handle" => ENABLED HandlerReturn(b)
            /\ CanReceive(b) => ENABLED Dispatch(b))

\* Inside the handler of the first event a Drop failed at the native layer:
\* the error went to the caller, the handler is still in progress and Start
\* has not returned.
C18_Witness ==
    \E b \in Created :
        /\ spc[b] = "handle" /\ Len(dispatched[b]) = 1 /\ sret[b] = "none"
        /\ Len(verdicts) = 1 /\ verdicts[1].b = b /\ verdicts[1].i = 1
        /\ verdicts[1].op = "Drop" /\ verdicts[1].rets = <<-1>>
        /\ verdicts[1].result[1] = "Error setting verdict"

\* Start on q has fetched the descriptor of its context.
Started(q) ==
    \E k \in 1..Len(startCalls[q]) :
        startCalls[q][k].fn = "nfq_fd" /\ startCalls[q][k].ok

\* What the native layer holds for Queue b: its context, binding and socket.
Resources(b) == <<b \in native.ctx, b \in native.binds, b \in native.socks>>

\* The context of Queue b inside Start and Stop did not move in this step.
Idle(b) ==
    /\ spc'[b] = spc[b] /\ startCalls'[b] = startCalls[b]
    /\ tpc'[b] = tpc[b] /\ stopCalls'[b] = stopCalls[b]

\* This step is the close of a Stop on a Queue that gave it a descriptor number
\* which is not that of the Queue's own open socket: the zero value of q.fd.
ForeignClose ==
    \E a \in Created :
        /\ Len(stopCalls'[a]) > Len(stopCalls[a])
        /\ stopCalls'[a][Len(stopCalls'[a])].fn = "close"
        /\ a \notin native.socks \/ queues[a].fd # native.fdOf[a]

====
